---- MODULE Spec2Model ----
(***************************************************************************)
(* Model of scraper/btm_scraper.py: the login, the time and risk           *)
(* canonicalisation, fetch_table_csv, bulk_download_tables and main, and   *)
(* of the resolver of the specification's section 4.2.                     *)
(*                                                                         *)
(* A Python str is modelled as a sequence of one-character strings, so     *)
(* that strip, replace, zfill and the regular expression search act on     *)
(* characters as the code does.                                            *)
(***************************************************************************)
EXTENDS Integers, Sequences, FiniteSets, TLC

(***************************************************************************)
(* Bounds of the model.                                                    *)
(***************************************************************************)
\* longest raw time string given to normalize_time_hour on its own
MaxLen == 5
\* largest number of (risk, hour) pairs of one run
MaxPairs == 4
\* largest number of rows the endpoint returns for one table
MaxRows == 1
\* number of consecutive runs against the same output tree
MaxRuns == 2
\* largest number of (risk, hour) pairs of a run that is run again
MaxRerunPairs == 2
\* longest alias list handed to the resolver
MaxAliases == 2

(***************************************************************************)
(* Characters and strings.                                                 *)
(***************************************************************************)
Digits == {"0", "1", "2", "3", "4", "5", "6", "7", "8", "9"}

\* the characters the raw time strings are drawn from
Alphabet == {"0", "4", "9", ":", " ", "a", "-"}

Strings == UNION {[1..n -> Alphabet] : n \in 0..MaxLen}

IsDigit(c) == c \in Digits

IsSpace(c) == c = " "

RECURSIVE LStrip(_)
LStrip(s) ==
    IF s # <<>> /\ IsSpace(Head(s)) THEN LStrip(Tail(s)) ELSE s

RECURSIVE RStrip(_)
RStrip(s) ==
    IF s # <<>> /\ IsSpace(s[Len(s)]) THEN RStrip(SubSeq(s, 1, Len(s) - 1)) ELSE s

\* str.strip()
Strip(s) == RStrip(LStrip(s))

\* str.replace(old, new) for a one-character old and a new of any length
RECURSIVE Replace(_, _, _)
Replace(s, old, new) ==
    IF s = <<>> THEN <<>>
    ELSE (IF Head(s) = old THEN new ELSE <<Head(s)>>) \o Replace(Tail(s), old, new)

Zeros(n) == [k \in 1..n |-> "0"]

\* a mutation of ZFill: the padding is forgotten
ZFillNoPad(s, w) == s

\* str.zfill(w): zeros on the left up to width w, after a leading sign
ZFill(s, w) ==
    IF Len(s) >= w THEN s
    ELSE IF s # <<>> /\ Head(s) \in {"+", "-"}
         THEN <<Head(s)>> \o Zeros(w - Len(s)) \o Tail(s)
         ELSE Zeros(w - Len(s)) \o s

(***************************************************************************)
(* re.search(r"(\d{1,2})\D?(\d{2})", s): the leftmost position at which    *)
(* the pattern matches; at one position the greedy alternatives are tried  *)
(* in the order of the backtracking matcher: two digits before one for     *)
(* group 1, one non-digit before none for \D?.                             *)
(***************************************************************************)
NoMatch == <<>>

DigitAt(s, p) == p >= 1 /\ p <= Len(s) /\ IsDigit(s[p])

NonDigitAt(s, p) == p >= 1 /\ p <= Len(s) /\ ~IsDigit(s[p])

\* group 1 of n digits at p, then d non-digits, then group 2 of two digits
MatchesWith(s, p, n, d) ==
    /\ \A k \in 0..(n - 1) : DigitAt(s, p + k)
    /\ d = 1 => NonDigitAt(s, p + n)
    /\ DigitAt(s, p + n + d)
    /\ DigitAt(s, p + n + d + 1)

Groups(s, p, n, d) ==
    <<SubSeq(s, p, p + n - 1), SubSeq(s, p + n + d, p + n + d + 1)>>

MatchAt(s, p) ==
    IF MatchesWith(s, p, 2, 1) THEN Groups(s, p, 2, 1)
    ELSE IF MatchesWith(s, p, 2, 0) THEN Groups(s, p, 2, 0)
    ELSE IF MatchesWith(s, p, 1, 1) THEN Groups(s, p, 1, 1)
    ELSE IF MatchesWith(s, p, 1, 0) THEN Groups(s, p, 1, 0)
    ELSE NoMatch

RECURSIVE SearchFrom(_, _)
SearchFrom(s, p) ==
    IF p > Len(s) THEN NoMatch
    ELSE IF MatchAt(s, p) # NoMatch THEN MatchAt(s, p)
    ELSE SearchFrom(s, p + 1)

Search(s) == SearchFrom(s, 1)

normalize_time_hour(hora) ==
    LET s == Replace(Strip(hora), ":", <<>>)
        m == Search(s)
    IN  IF m # NoMatch THEN ZFill(m[1], 2) \o m[2] ELSE ZFill(s, 4)

(***************************************************************************)
(* The canonicalisation of a risk name: str(r).strip().lower()             *)
(* .replace(" ", "_").                                                     *)
(***************************************************************************)
LowerChar(c) ==
    CASE c = "A" -> "a"
      [] c = "B" -> "b"
      [] c = "C" -> "c"
      [] OTHER -> c

Lower(s) == [k \in 1..Len(s) |-> LowerChar(s[k])]

NormalizeRisk(r) == Replace(Lower(Strip(r)), " ", <<"_">>)

\* the order-preserving removal of repeated entries ("seen, out = set(), []")
RECURSIVE Dedup(_)
Dedup(l) ==
    IF l = <<>> THEN <<>>
    ELSE LET init == Dedup(SubSeq(l, 1, Len(l) - 1))
             x == l[Len(l)]
         IN  IF \E k \in 1..Len(init) : init[k] = x THEN init ELSE Append(init, x)

(***************************************************************************)
(* The inputs of a run.                                                    *)
(***************************************************************************)
\* raw time strings, as typed after --hours or read from the page
AllHours ==
    << <<"1", "0", ":", "0", "0">>,
       <<"9", ":", "4", "0">>,
       <<"0", "9", ":", "4", "0">>,
       <<"1", "a">>,
       <<"0", "9", "4", "0">> >>

\* raw risk names, as typed after --risks or read from the page
AllRisks ==
    << <<"A", " ", "b">>, <<"c">>, <<"a", "_", "b">> >>

Min(a, b) == IF a <= b THEN a ELSE b

\* the lists of hours a run is asked for: the runs of consecutive entries
HourLists ==
    {l \in {SubSeq(AllHours, a, b) : a \in 1..Len(AllHours), b \in 0..Len(AllHours)} :
        Len(l) <= MaxPairs}

RiskLists == {SubSeq(AllRisks, 1, n) : n \in 0..Min(Len(AllRisks), MaxPairs)}

\* the dates /get_dates answers with, unsorted and repeated
ServerDates == <<"d2", "d1", "d2">>

DateRank(d) == IF d = "d1" THEN 1 ELSE 2

\* sorted(set(js))
RECURSIVE SortedSet(_)
SortedSet(S) ==
    IF S = {} THEN <<>>
    ELSE LET m == CHOOSE x \in S : \A y \in S : DateRank(x) <= DateRank(y)
         IN  <<m>> \o SortedSet(S \ {m})

Range(l) == {l[k] : k \in 1..Len(l)}

(***************************************************************************)
(* The state of a run.                                                     *)
(***************************************************************************)
VARIABLES
    pc,         \* where main is: "argv", "login", "dates", "hours", "risks", "loop", "exit"
    code,       \* the exit code of the process, -1 while it runs
    fatal,      \* the call whose exception left main, "none" if none did
    creds,      \* BTM_EMAIL and BTM_PASSWORD are both set
    login,      \* what the login met: "none" before it, else one of LoginEvents
    auto,       \* the arguments left to discover: a subset of {"hours", "risks"}
    desde,      \* --desde, "" if not given
    hasta,      \* --hasta, "" if not given
    hours,      \* the list of raw hours
    risks,      \* the list of risks, canonical once the loop starts
    overwrite,  \* --overwrite
    i,          \* index of the current risk
    j,          \* index of the current hour, 0 before the risk's directory exists
    manifest,   \* the list of manifest records of this run
    fs,         \* the output tree: [dirs, files, manifest]
    last,       \* the endpoint's answer to the latest pair, NoFetch if it was skipped
    fetched,    \* the requests sent to the endpoint in this run
    written,    \* the files written in this run
    fs0,        \* the output tree as this run found it
    run,        \* the number of this run
    cmdline     \* the command line kept for a re-run, <<>> if none follows

mainVars ==
    <<pc, code, fatal, creds, login, auto, desde, hasta, hours, risks, overwrite,
      i, j, manifest, fs, last, fetched, written, fs0, run, cmdline>>

\* normalize_time_hour on its own
VARIABLES
    hora,       \* the raw string
    slot,       \* normalize_time_hour(hora), <<>> before the call
    again,      \* normalize_time_hour(slot), <<>> before the second call
    stage       \* "idle", "input", "called", "again"

normVars == <<hora, slot, again, stage>>

\* resolve (section 4.2 of the specification) on its own
VARIABLES
    fixture,    \* what the page offers: which strategy can succeed
    attempt,    \* the position in StrategyOrder of the next strategy, 0 when idle
    resolved,   \* "pending", "true", "false"
    used        \* the strategy that succeeded, 0 if none has

resolveVars == <<fixture, attempt, resolved, used>>

vars == <<mainVars, normVars, resolveVars>>

EmptyTree == [dirs |-> {}, files |-> <<>>, manifest |-> <<>>]

NoFetch == [kind |-> "none", rows |-> 0, disk |-> "none"]

\* base / "manifest.csv"
ManifestPath == << <<"m", "a", "n", "i", "f", "e", "s", "t">> >>

\* base / risk / table_{symbol}_{strategy}_{risk}_{hhmm}_{desde}_{hasta}.csv
TablePath(risk, hhmm, d, h) == <<risk, hhmm, d, h>>

(***************************************************************************)
(* login: the first thing that goes wrong raises; nothing else is tried.   *)
(***************************************************************************)
LoginEvents ==
    {"no_credentials", "csrf_http_error", "no_csrf_token", "post_http_error",
     "landing_http_error", "confirmed"}

\* what a login can meet, given the credentials
LoginMeets(c) == IF c THEN LoginEvents \ {"no_credentials"} ELSE {"no_credentials"}

\* a mutation of LoginRaises: a missing csrf_token is not checked
LoginRaisesNoCsrfCheck(ev) == ev \notin {"confirmed", "no_csrf_token"}

\* login raises unless every step went through
LoginRaises(ev) == ev # "confirmed"

(***************************************************************************)
(* fetch_table_csv, as bulk_download_tables calls it (filename given,      *)
(* also_return_df=True): the endpoint's answer and the disk's behaviour    *)
(* are its inputs; its result is the exception raised ("" if none), the    *)
(* length of the DataFrame returned and what happened to the file.         *)
(***************************************************************************)
Responses ==
    {[kind |-> k, rows |-> 0] :
        k \in {"http_error", "bad_json", "scalar", "dict_no_data", "dict_data_not_list"}}
    \cup {[kind |-> k, rows |-> n] : k \in {"list", "dict_data_list"}, n \in 0..MaxRows}

\* the answers of a well-behaved endpoint, and its outages
PlainResponses ==
    {[kind |-> "dict_data_list", rows |-> n] : n \in 0..1}
    \cup {[kind |-> "http_error", rows |-> 0]}

DiskOutcomes == {"ok", "error", "partial"}

Raise(e) == [exc |-> e, rows |-> 0, file |-> "untouched"]

Return(n, f) == [exc |-> "", rows |-> n, file |-> f]

\* to_csv on a non-empty DataFrame of n rows
ToCsv(n, disk) ==
    CASE disk = "ok" -> Return(n, "complete")
      [] disk = "partial" -> [exc |-> "OSError", rows |-> 0, file |-> "partial"]
      [] OTHER -> Raise("OSError")

fetch_table_csv(resp, disk) ==
    CASE resp.kind = "http_error" -> Raise("HTTPError")            \* raise_for_status
      [] resp.kind = "bad_json" -> Raise("JSONDecodeError")        \* r.json()
      \* payload.get: only a dict has it
      [] resp.kind = "scalar" -> Raise("AttributeError:scalar")
      [] resp.kind = "list" -> Raise("AttributeError:list")
      \* rows = payload["data"], not a list
      [] resp.kind = "dict_data_not_list" -> Raise("RuntimeError")
      \* rows = the default, [] for a payload that is not a list
      [] resp.kind = "dict_no_data" -> Return(0, "untouched")
      [] OTHER -> IF resp.rows = 0 THEN Return(0, "untouched") ELSE ToCsv(resp.rows, disk)

\* the answers after which fetch_table_csv gets to write
Writes(resp) == fetch_table_csv(resp, "ok").file = "complete"

\* a mutation of Caught: except RuntimeError
CaughtRuntimeError(e) == e = "RuntimeError"

\* except Exception: every exception fetch_table_csv raises is one
Caught(e) ==
    e \in {"HTTPError", "JSONDecodeError", "AttributeError:scalar", "AttributeError:list",
           "RuntimeError", "OSError"}

\* the exit code of the interpreter: 2 from argparse, 1 for an exception that
\* leaves main, 0 when main returns
ExitCode(cause) ==
    CASE cause = "none" -> 0
      [] cause = "argparse" -> 2
      [] OTHER -> 1

None == <<>>

Record(risk, hhmm, file, rows, status) ==
    [risk |-> risk, hour |-> hhmm, file |-> file, rows |-> rows, status |-> status]

\* a mutation of ManifestRecord: the message of the exception is dropped
ManifestRecordNoMessage(risk, hhmm, file, out) ==
    IF out.exc # "" THEN Record(risk, hhmm, file, <<0>>, "error:")
    ELSE IF out.rows = 0 THEN Record(risk, hhmm, file, <<0>>, "empty")
    ELSE Record(risk, hhmm, file, <<out.rows>>, "ok")

\* the record appended for a pair that was fetched
ManifestRecord(risk, hhmm, file, out) ==
    IF out.exc # "" THEN Record(risk, hhmm, file, <<0>>, "error:" \o out.exc)
    ELSE IF out.rows = 0 THEN Record(risk, hhmm, file, <<0>>, "empty")
    ELSE Record(risk, hhmm, file, <<out.rows>>, "ok")

\* a mutation of Skips: the flag is read the wrong way round
SkipsInverted(exists, ow) == exists /\ ow

\* fpath.exists() and not overwrite
Skips(exists, ow) == exists /\ ~ow

(***************************************************************************)
(* main.                                                                   *)
(***************************************************************************)
Exit(cause) ==
    /\ pc' = "exit"
    /\ code' = ExitCode(cause)
    /\ fatal' = cause

Goto(label) ==
    /\ pc' = label
    /\ UNCHANGED <<code, fatal>>

Pairs(rs, hs) == Len(rs) * Len(hs)

\* the command lines of a run; "auto" leaves a list to be read from the page
InitArgs ==
    /\ auto \in SUBSET {"hours", "risks"}
    /\ hours \in IF "hours" \in auto THEN {<<>>} ELSE HourLists
    /\ risks \in IF "risks" \in auto THEN {<<>>} ELSE RiskLists
    /\ Pairs(risks, hours) <= MaxPairs
    /\ desde \in {"", "d1"}
    /\ hasta \in {"", "d2"}
    /\ overwrite \in BOOLEAN

InitProcess ==
    /\ code = -1
    /\ fatal = "none"
    /\ login = "none"
    /\ i = 1
    /\ j = 0
    /\ manifest = <<>>
    /\ last = NoFetch
    /\ fetched = <<>>
    /\ written = {}
    /\ fs = EmptyTree
    /\ fs0 = EmptyTree
    /\ run = 1

NormIdle ==
    /\ hora = <<>>
    /\ slot = <<>>
    /\ again = <<>>
    /\ stage = "idle"

ResolveIdle ==
    /\ fixture = <<>>
    /\ attempt = 0
    /\ resolved = "pending"
    /\ used = 0

MainIdle ==
    /\ pc = "idle"
    /\ InitProcess
    /\ creds = FALSE
    /\ auto = {}
    /\ hours = <<>>
    /\ risks = <<>>
    /\ desde = ""
    /\ hasta = ""
    /\ overwrite = FALSE
    /\ cmdline = <<>>

Init ==
    /\ pc = "argv"
    /\ InitProcess
    /\ creds \in BOOLEAN
    /\ InitArgs
    /\ cmdline = <<>>
    /\ NormIdle
    /\ ResolveIdle

\* parse_args: argparse leaves with 2 on a command line it rejects
ParseArgs ==
    /\ pc = "argv"
    /\ \E ok \in BOOLEAN : IF ok THEN Goto("login") ELSE Exit("argparse")
    /\ UNCHANGED <<creds, login, auto, desde, hasta, hours, risks, overwrite, i, j,
                   manifest, fs, last, fetched, written, fs0, run, cmdline>>
    /\ UNCHANGED <<normVars, resolveVars>>

Login ==
    /\ pc = "login"
    /\ \E ev \in LoginMeets(creds) :
        /\ login' = ev
        /\ IF LoginRaises(ev) THEN Exit("login") ELSE Goto("dates")
    /\ UNCHANGED <<creds, auto, desde, hasta, hours, risks, overwrite, i, j,
                   manifest, fs, last, fetched, written, fs0, run, cmdline>>
    /\ UNCHANGED <<normVars, resolveVars>>

\* get_dates
get_dates(js) == SortedSet(Range(js))

\* bulk_download_tables: "if not desde or not hasta"
ResolveDates ==
    /\ pc = "dates"
    /\ IF desde = "" \/ hasta = ""
       THEN \E answer \in {"error", "none", "dates"} :
               LET dates == IF answer = "dates" THEN get_dates(ServerDates) ELSE <<>>
               IN  IF answer = "error" \/ dates = <<>>
                   THEN Exit("get_dates") /\ UNCHANGED <<desde, hasta>>
                   ELSE /\ Goto("hours")
                        /\ desde' = dates[1]
                        /\ hasta' = dates[Len(dates)]
       ELSE Goto("hours") /\ UNCHANGED <<desde, hasta>>
    /\ UNCHANGED <<creds, login, auto, hours, risks, overwrite, i, j,
                   manifest, fs, last, fetched, written, fs0, run, cmdline>>
    /\ UNCHANGED <<normVars, resolveVars>>

\* the option texts of the page's timeHour select
PageHours == HourLists \cup {l \o <<l[1]>> : l \in HourLists \ {<<>>}}

get_timehour_options(values) == Dedup(values)

\* bulk_download_tables: "if hours is None ..."
ResolveHours ==
    /\ pc = "hours"
    /\ IF "hours" \in auto
       THEN \/ Exit("get_timehour_options") /\ UNCHANGED <<hours, auto>>
            \/ \E values \in PageHours :
                /\ hours' = get_timehour_options(values)
                /\ "risks" \notin auto => Pairs(risks, hours') <= MaxPairs
                /\ Len(hours') <= MaxPairs
                /\ auto' = auto \ {"hours"}
                /\ Goto("risks")
       ELSE Goto("risks") /\ UNCHANGED <<hours, auto>>
    /\ UNCHANGED <<creds, login, desde, hasta, risks, overwrite, i, j,
                   manifest, fs, last, fetched, written, fs0, run, cmdline>>
    /\ UNCHANGED <<normVars, resolveVars>>

get_risk_options(values) == Dedup([k \in 1..Len(values) |-> NormalizeRisk(values[k])])

MkDir(tree, d) == [tree EXCEPT !.dirs = @ \cup {d}]

\* base = out_base / symbol / strategy; a risk's directory is <<risk>>
BaseDir == <<>>

\* bulk_download_tables: "if risks is None ...", the two lists, base.mkdir
ResolveRisks ==
    /\ pc = "risks"
    /\ \/ /\ "risks" \in auto
          /\ Exit("get_risk_options")
          /\ UNCHANGED <<risks, auto, fs>>
       \/ \E values \in IF "risks" \in auto THEN RiskLists ELSE {risks} :
            LET found == IF "risks" \in auto THEN get_risk_options(values) ELSE values
            IN  /\ Pairs(found, hours) <= MaxPairs
                /\ risks' = [k \in 1..Len(found) |-> NormalizeRisk(found[k])]
                /\ auto' = auto \ {"risks"}
                /\ \/ Goto("loop") /\ fs' = MkDir(fs, BaseDir)
                   \/ Exit("mkdir") /\ UNCHANGED fs
    /\ UNCHANGED <<creds, login, desde, hasta, hours, overwrite, i, j,
                   manifest, last, fetched, written, fs0, run, cmdline>>
    /\ UNCHANGED <<normVars, resolveVars>>

\* the loop over the risks: risk_dir.mkdir
EnterRisk ==
    /\ pc = "loop"
    /\ i <= Len(risks)
    /\ j = 0
    /\ \/ /\ fs' = MkDir(fs, <<risks[i]>>)
          /\ Goto("loop")
          /\ IF hours = <<>> THEN i' = i + 1 /\ j' = 0 ELSE i' = i /\ j' = 1
       \/ Exit("mkdir") /\ UNCHANGED <<fs, i, j>>
    /\ UNCHANGED <<creds, login, auto, desde, hasta, hours, risks, overwrite,
                   manifest, last, fetched, written, fs0, run, cmdline>>
    /\ UNCHANGED <<normVars, resolveVars>>

Advance ==
    IF j < Len(hours) THEN i' = i /\ j' = j + 1 ELSE i' = i + 1 /\ j' = 0

WriteFile(tree, path, out) ==
    IF out.file = "untouched" THEN tree
    ELSE [tree EXCEPT !.files =
            (path :> [rows |-> out.rows, complete |-> out.file = "complete"]) @@ @]

\* the body of the loop over the hours, for the answers R of the endpoint
Iterate(R) ==
    /\ pc = "loop"
    /\ i <= Len(risks)
    /\ j >= 1
    /\ LET risk == risks[i]
           hhmm == normalize_time_hour(hours[j])
           fpath == TablePath(risk, hhmm, desde, hasta)
       IN  IF Skips(fpath \in DOMAIN fs.files, overwrite)
           THEN /\ manifest' = Append(manifest, Record(risk, hhmm, fpath, None, "skipped"))
                /\ last' = NoFetch
                /\ Goto("loop")
                /\ Advance
                /\ UNCHANGED <<fs, fetched, written>>
           ELSE \E resp \in R :
                \E disk \in IF Writes(resp) THEN DiskOutcomes ELSE {"none"} :
                    LET out == fetch_table_csv(resp, disk)
                    IN  /\ last' = [kind |-> resp.kind, rows |-> resp.rows, disk |-> disk]
                        /\ fetched' = Append(fetched,
                              [k |-> Len(manifest) + 1, risk |-> risk,
                               hora |-> normalize_time_hour(hhmm)])
                        /\ fs' = WriteFile(fs, fpath, out)
                        /\ written' = IF out.file = "untouched" THEN written
                                      ELSE written \cup {fpath}
                        /\ IF out.exc = "" \/ Caught(out.exc)
                           THEN /\ manifest' =
                                     Append(manifest, ManifestRecord(risk, hhmm, fpath, out))
                                /\ Goto("loop")
                                /\ Advance
                           ELSE /\ Exit("fetch_table_csv")
                                /\ UNCHANGED <<manifest, i, j>>
    /\ UNCHANGED <<creds, login, auto, desde, hasta, hours, risks, overwrite,
                   fs0, run, cmdline>>
    /\ UNCHANGED <<normVars, resolveVars>>

\* man_df.to_csv(base / "manifest.csv"), and main returns
WriteManifest ==
    /\ pc = "loop"
    /\ i > Len(risks)
    /\ \/ /\ fs' = [fs EXCEPT !.manifest = <<manifest>>]
          /\ written' = written \cup {ManifestPath}
          /\ Exit("none")
       \/ /\ Exit("manifest_write")
          /\ UNCHANGED <<fs, written>>
    /\ UNCHANGED <<creds, login, auto, desde, hasta, hours, risks, overwrite, i, j,
                   manifest, last, fetched, fs0, run, cmdline>>
    /\ UNCHANGED <<normVars, resolveVars>>

Fetch == Iterate(Responses)

Next ==
    \/ ParseArgs
    \/ Login
    \/ ResolveDates
    \/ ResolveHours
    \/ ResolveRisks
    \/ EnterRisk
    \/ Fetch
    \/ WriteManifest

Spec == Init /\ [][Next]_vars

(***************************************************************************)
(* A re-run: a new process, the same command line but for --overwrite,     *)
(* the output tree as the run before left it.                              *)
(***************************************************************************)
InitRerun ==
    /\ pc = "argv"
    /\ InitProcess
    /\ creds \in BOOLEAN
    /\ InitArgs
    /\ Pairs(risks, hours) <= MaxRerunPairs
    /\ auto = {}
    /\ desde = "d1"
    /\ hasta = "d2"
    /\ cmdline = <<[hours |-> hours, risks |-> risks, desde |-> desde, hasta |-> hasta]>>
    /\ NormIdle
    /\ ResolveIdle

Rerun ==
    /\ pc = "exit"
    /\ run < MaxRuns
    /\ cmdline # <<>>
    /\ pc' = "argv"
    /\ code' = -1
    /\ fatal' = "none"
    /\ login' = "none"
    /\ auto' = {}
    /\ hours' = cmdline[1].hours
    /\ risks' = cmdline[1].risks
    /\ desde' = cmdline[1].desde
    /\ hasta' = cmdline[1].hasta
    /\ overwrite' \in BOOLEAN
    /\ i' = 1
    /\ j' = 0
    /\ manifest' = <<>>
    /\ last' = NoFetch
    /\ fetched' = <<>>
    /\ written' = {}
    /\ fs0' = fs
    /\ run' = run + 1
    /\ UNCHANGED <<creds, fs, cmdline>>
    /\ UNCHANGED <<normVars, resolveVars>>

PlainFetch == Iterate(PlainResponses)

NextRerun ==
    \/ ParseArgs
    \/ Login
    \/ ResolveDates
    \/ ResolveHours
    \/ ResolveRisks
    \/ EnterRisk
    \/ PlainFetch
    \/ WriteManifest
    \/ Rerun

SpecRerun == InitRerun /\ [][NextRerun]_vars

(***************************************************************************)
(* normalize_time_hour on every string of the alphabet, and on its own     *)
(* result, as fetch_table_csv calls it on the hhmm of bulk_download_tables.*)
(***************************************************************************)
InitNorm ==
    /\ MainIdle
    /\ ResolveIdle
    /\ hora \in Strings
    /\ slot = <<>>
    /\ again = <<>>
    /\ stage = "input"

Normalize ==
    /\ stage = "input"
    /\ slot' = normalize_time_hour(hora)
    /\ stage' = "called"
    /\ UNCHANGED <<hora, again>>
    /\ UNCHANGED <<mainVars, resolveVars>>

Renormalize ==
    /\ stage = "called"
    /\ again' = normalize_time_hour(slot)
    /\ stage' = "again"
    /\ UNCHANGED <<hora, slot>>
    /\ UNCHANGED <<mainVars, resolveVars>>

NextNorm == Normalize \/ Renormalize

SpecNorm == InitNorm /\ [][NextNorm]_vars

(***************************************************************************)
(* resolve(target, desiredValue, aliases) of section 4.2.  The fixture     *)
(* says what the page offers once the retries of section 4.1 are spent:    *)
(* whether the native element has an option with the desired label, which  *)
(* aliases match an option of it, whether opening the element and clicking *)
(* the desired text works, and for which aliases the same click works.     *)
(***************************************************************************)
Fixtures ==
    UNION {[native_label : BOOLEAN,
            alias_option : [1..n -> BOOLEAN],
            custom_text : BOOLEAN,
            alias_click : [1..n -> BOOLEAN]] : n \in 0..MaxAliases}

NATIVE_SELECT_BY_LABEL == 1
NATIVE_SELECT_BY_ALIAS == 2
CUSTOM_CLICK_OPEN_THEN_TEXT == 3
ALIAS_OPEN_THEN_CLICK == 4

\* a mutation of StrategyOrder: the custom widget is tried before the aliases
StrategyOrderCustomFirst ==
    <<NATIVE_SELECT_BY_LABEL, CUSTOM_CLICK_OPEN_THEN_TEXT, NATIVE_SELECT_BY_ALIAS,
      ALIAS_OPEN_THEN_CLICK>>

StrategyOrder ==
    <<NATIVE_SELECT_BY_LABEL, NATIVE_SELECT_BY_ALIAS, CUSTOM_CLICK_OPEN_THEN_TEXT,
      ALIAS_OPEN_THEN_CLICK>>

\* one strategy on the page
Succeeds(f, s) ==
    CASE s = NATIVE_SELECT_BY_LABEL -> f.native_label
      [] s = NATIVE_SELECT_BY_ALIAS -> \E a \in DOMAIN f.alias_option : f.alias_option[a]
      [] s = CUSTOM_CLICK_OPEN_THEN_TEXT -> f.custom_text
      [] OTHER -> \E a \in DOMAIN f.alias_click : f.alias_click[a]

InitResolve ==
    /\ MainIdle
    /\ NormIdle
    /\ fixture \in Fixtures
    /\ attempt = 1
    /\ resolved = "pending"
    /\ used = 0

\* the next strategy of the order is tried; the first success returns true
Attempt ==
    /\ resolved = "pending"
    /\ attempt >= 1
    /\ attempt <= Len(StrategyOrder)
    /\ IF Succeeds(fixture, StrategyOrder[attempt])
       THEN /\ resolved' = "true"
            /\ used' = StrategyOrder[attempt]
            /\ UNCHANGED attempt
       ELSE /\ attempt' = attempt + 1
            /\ UNCHANGED <<resolved, used>>
    /\ UNCHANGED fixture
    /\ UNCHANGED <<mainVars, normVars>>

\* every strategy has failed
ReturnFalse ==
    /\ resolved = "pending"
    /\ attempt > Len(StrategyOrder)
    /\ resolved' = "false"
    /\ UNCHANGED <<fixture, attempt, used>>
    /\ UNCHANGED <<mainVars, normVars>>

NextResolve == Attempt \/ ReturnFalse

SpecResolve == InitResolve /\ [][NextResolve]_vars

(***************************************************************************)
(* The claims.                                                             *)
(***************************************************************************)
Returned == pc = "exit" /\ fatal = "none"

\* the risk and the hour of the k-th pair, risk-major and time-minor
RiskOf(k) == risks[((k - 1) \div Len(hours)) + 1]

HourOf(k) == hours[((k - 1) % Len(hours)) + 1]

LastRecord == manifest[Len(manifest)]

ErrorStatuses ==
    {"error:HTTPError", "error:JSONDecodeError", "error:AttributeError:scalar",
     "error:AttributeError:list", "error:RuntimeError", "error:OSError"}

Statuses == {"ok", "empty", "skipped"} \cup ErrorStatuses

RecordsOf(risk, hhmm) ==
    {k \in 1..Len(manifest) : manifest[k].risk = risk /\ manifest[k].hour = hhmm}

\* C1: once bulk_download_tables has returned, every requested (risk, time)
\* pair has exactly one record in the manifest, the records follow the
\* risk-major, time-minor order of the request, and every status is ok, empty,
\* skipped or error:<message>; two hours of the same slot do not make two
\* records of one pair.
C1_OneRecordPerPair ==
    Returned =>
        /\ \A a \in 1..Len(risks) : \A b \in 1..Len(hours) :
              Cardinality(RecordsOf(risks[a], normalize_time_hour(hours[b]))) = 1
        /\ \A k \in 1..Len(manifest) :
              /\ manifest[k].risk = RiskOf(k)
              /\ manifest[k].hour = normalize_time_hour(HourOf(k))
              /\ manifest[k].status \in Statuses

\* the answers, and the disk's behaviour, that make the fetch of a pair fail,
\* with the status each is booked under
FailureStatus ==
    CASE last.kind = "http_error" -> "error:HTTPError"
      [] last.kind = "bad_json" -> "error:JSONDecodeError"
      [] last.kind = "dict_data_not_list" -> "error:RuntimeError"
      [] last.disk \in {"error", "partial"} -> "error:OSError"
      [] OTHER -> ""

\* C2: a pair whose fetch fails (HTTP error, bad JSON, unexpected shape, write
\* error) is recorded with an error status that carries the message; no such
\* failure ends the run: record k is always the k-th pair of the request, and
\* a run that returns has recorded every pair and written the manifest.
C2_FailureRecordedLoopGoesOn ==
    /\ FailureStatus # "" =>
          /\ manifest # <<>>
          /\ LastRecord.status = FailureStatus
          /\ LastRecord.rows = <<0>>
    /\ fatal # "fetch_table_csv"
    /\ \A k \in 1..Len(manifest) :
          /\ manifest[k].risk = RiskOf(k)
          /\ manifest[k].hour = normalize_time_hour(HourOf(k))
    /\ Returned =>
          /\ Len(manifest) = Pairs(risks, hours)
          /\ fs.manifest = <<manifest>>

\* C2, witness: a run that returned after an HTTP error on one pair and a
\* table downloaded for the next one, the manifest written.
C2_Witness ==
    /\ Returned
    /\ fs.manifest = <<manifest>>
    /\ \E k \in 1..(Len(manifest) - 1) :
          /\ manifest[k].status = "error:HTTPError"
          /\ manifest[k + 1].status = "ok"

\* the manifest the run before left, <<>> if it left none
Before == IF fs0.manifest = <<>> THEN <<>> ELSE fs0.manifest[1]

SucceededBefore(k) == k <= Len(Before) /\ Before[k].status = "ok"

FetchedPairs == {fetched[q].k : q \in 1..Len(fetched)}

\* what a re-run without --overwrite does to the pairs the run before
\* downloaded: a skipped record, no fetch
SkipsWhatSucceeded ==
    \A k \in 1..Len(manifest) :
        SucceededBefore(k) => manifest[k].status = "skipped" /\ k \notin FetchedPairs

\* C3, as amended: a re-run without --overwrite records the pairs the run
\* before downloaded as skipped, fetches none of them, and writes no table
\* file that was in the output tree when it started.
C3_RerunSkipsAndKeepsTables ==
    (run > 1 /\ ~overwrite) =>
        /\ SkipsWhatSucceeded
        /\ \A p \in DOMAIN fs0.files :
              /\ p \notin written
              /\ p \in DOMAIN fs.files
              /\ fs.files[p] = fs0.files[p]

\* C3, as stated: the same, and no file of the output tree at all is written
\* again, manifest.csv included.
C3_RerunWritesNoExistingFile ==
    (run > 1 /\ ~overwrite) =>
        /\ SkipsWhatSucceeded
        /\ \A p \in DOMAIN fs0.files : p \notin written /\ fs.files[p] = fs0.files[p]
        /\ fs0.manifest # <<>> => ManifestPath \notin written

\* C3, witness: a re-run without --overwrite that returned, with a skipped
\* record for a pair the run before had downloaded.
C3_Witness ==
    /\ run > 1
    /\ ~overwrite
    /\ Returned
    /\ \E k \in 1..Len(manifest) : SucceededBefore(k) /\ manifest[k].status = "skipped"

NothingDone == fs = fs0 /\ written = {} /\ fetched = <<>>

\* C4: a login that cannot be confirmed ends the run at once with nothing
\* fetched, no directory or file created and no manifest written; whatever a
\* run fetches or writes, it does after a confirmed login.
C4_NoOutputWithoutLogin ==
    /\ login \notin {"none", "confirmed"} => pc = "exit" /\ code = 1 /\ NothingDone
    /\ ~NothingDone => login = "confirmed"

\* C4, witness: a run ended by a login page without csrf_token.
C4_Witness == login = "no_csrf_token" /\ pc = "exit" /\ creds

\* C5: an empty list from the endpoint leaves no file at the destination and
\* is recorded with status empty and rows 0.
C5_EmptyListRecordedEmpty ==
    (last.kind \in {"list", "dict_data_list"} /\ last.rows = 0) =>
        /\ manifest # <<>>
        /\ LastRecord.status = "empty"
        /\ LastRecord.rows = <<0>>
        /\ ~overwrite => LastRecord.file \notin DOMAIN fs.files

\* C7: an answer whose row payload is not a list makes fetch_table_csv raise
\* and leaves no file; a list of rows, bare or under "data", is never
\* rejected for its shape.
C7_ShapeChecked ==
    /\ last.kind \in {"scalar", "dict_data_not_list"} =>
          /\ manifest # <<>>
          /\ LastRecord.status \in ErrorStatuses
          /\ ~overwrite => LastRecord.file \notin DOMAIN fs.files
    /\ last.kind \in {"list", "dict_data_list"} =>
          /\ manifest # <<>>
          /\ LastRecord.status \notin
                {"error:AttributeError:list", "error:AttributeError:scalar",
                 "error:RuntimeError"}

\* the calls outside the try block of the loop whose exception leaves main
RunLevelCauses ==
    {"login", "get_dates", "get_timehour_options", "get_risk_options", "mkdir",
     "manifest_write"}

IsTimeSpelling(h) ==
    \/ Len(h) = 4 /\ IsDigit(h[1]) /\ h[2] = ":" /\ IsDigit(h[3]) /\ IsDigit(h[4])
    \/ Len(h) = 5 /\ IsDigit(h[1]) /\ IsDigit(h[2]) /\ h[3] = ":" /\ IsDigit(h[4])
          /\ IsDigit(h[5])
    \/ Len(h) = 4 /\ \A k \in 1..4 : IsDigit(h[k])

\* the four digits of a time spelling, a zero before a lone hour digit
SlotOf(h) ==
    LET d == SelectSeq(h, IsDigit)
    IN  IF Len(d) = 3 THEN <<"0">> \o d ELSE d

\* C6: normalize_time_hour maps every H:MM, HH:MM and HHMM spelling of a time
\* to its four digits HHMM; "9:40", "09:40" and "0940" all give "0940".
C6_Canonical ==
    stage # "input" =>
        /\ IsTimeSpelling(hora) => slot = SlotOf(hora)
        /\ hora \in {<<"9", ":", "4", "0">>, <<"0", "9", ":", "4", "0">>,
                     <<"0", "9", "4", "0">>} => slot = <<"0", "9", "4", "0">>

\* C6, witness: "9:40" normalized to "0940".
C6_Witness ==
    /\ stage = "called"
    /\ hora = <<"9", ":", "4", "0">>
    /\ slot = <<"0", "9", "4", "0">>

\* normalize_time_hour is idempotent: a second call returns its argument
Idempotent == stage = "again" => again = slot

\* C10: normalize_time_hour being idempotent, the hour fetch_table_csv sends
\* to the endpoint, which is the normal form of the hour bulk_download_tables
\* has normalized, is the hour of the pair's manifest record and of its file
\* name.
C10_SameHourEverywhere ==
    \A q \in 1..Len(fetched) :
        fetched[q].k <= Len(manifest) =>
            /\ fetched[q].hora = manifest[fetched[q].k].hour
            /\ fetched[q].hora = manifest[fetched[q].k].file[2]

\* C9: resolve returns true at the first strategy, in the order 1, 2, 3, 4,
\* that succeeds, and false only when all four fail; a target that only an
\* alias of a native option resolves is resolved by strategy 2.
C9_FirstStrategyWins ==
    /\ resolved = "true" =>
          /\ used \in 1..4
          /\ Succeeds(fixture, used)
          /\ \A s \in 1..(used - 1) : ~Succeeds(fixture, s)
    /\ resolved = "false" => \A s \in 1..4 : ~Succeeds(fixture, s)
    /\ (resolved # "pending" /\ ~fixture.native_label
            /\ \E a \in DOMAIN fixture.alias_option : fixture.alias_option[a]) =>
          resolved = "true" /\ used = NATIVE_SELECT_BY_ALIAS

\* C9, witness: a target with no native label, resolved by an alias although
\* the custom widget would have answered too.
C9_Witness ==
    /\ resolved = "true"
    /\ used = NATIVE_SELECT_BY_ALIAS
    /\ ~fixture.native_label
    /\ fixture.custom_text

====
